---------------------------- MODULE Spec2Model ----------------------------
(***************************************************************************)
(* The Velodent chat / CRM backend (src/main.py, src/schemas.py):          *)
(* POST /api/chat, POST /api/crm/lead and POST /api/crm/event over the     *)
(* document store reached through create_document.                         *)
(*                                                                         *)
(* Text is a sequence of one-character strings, so that strip(), lower()   *)
(* and the substring test `k in text` are computed, not assumed.           *)
(*                                                                         *)
(* A handler is run in steps, one create_document call at a time, and the  *)
(* requests are taken one after another: the handlers share nothing but    *)
(* the store, which they only append to.                                   *)
(***************************************************************************)
EXTENDS Integers, Sequences, FiniteSets, TLC

\* Python's None, where the other values of the field are strings.
None == "None"

\* An empty dict (Event.payload's default_factory=dict).
EmptyDict == [k \in {} |-> k]

(***************************************************************************)
(* Bounds of the model.                                                    *)
(***************************************************************************)
\* Documents the store holds before the model stops accepting requests.
MaxDocs == 3
\* Tokens concatenated into one message of AllMessages.
MaxTokens == 2

(***************************************************************************)
(* State                                                                   *)
(***************************************************************************)
VARIABLES
   db,               \* the document store: every stored document, in order
   pc,               \* where the handler being run stands ("idle": none)
   req,              \* the handler's argument (req, lead, event)
   intent_detected,  \* chat's local of that name
   lead_id,          \* create_lead's local of that name
   call,             \* the create_document call in progress
   ret,              \* its outcome, until the handler takes it up
   resp,             \* the HTTP response of the handler
   base,             \* Len(db) when the request was received
   memo,             \* an earlier chat request and the reply it got
   answered          \* chat requests classified book, insurance or callback
                     \* that were answered with a reply, so far

vars == <<db, pc, req, intent_detected, lead_id, call, ret, resp, base, memo, answered>>

(***************************************************************************)
(* str.strip() and str.lower() (main.py:101)                               *)
(***************************************************************************)
Whitespace == {" ", "\t", "\n"}

Uppers == <<"A", "B", "C", "D", "E", "F", "G", "H", "I", "J", "K", "L", "M",
            "N", "O", "P", "Q", "R", "S", "T", "U", "V", "W", "X", "Y", "Z">>

Lowers == <<"a", "b", "c", "d", "e", "f", "g", "h", "i", "j", "k", "l", "m",
            "n", "o", "p", "q", "r", "s", "t", "u", "v", "w", "x", "y", "z">>

lower_char(c) ==
   IF \E i \in 1..Len(Uppers) : Uppers[i] = c
   THEN Lowers[CHOOSE i \in 1..Len(Uppers) : Uppers[i] = c]
   ELSE c

lower(s) == [i \in 1..Len(s) |-> lower_char(s[i])]

RECURSIVE lstrip(_)
lstrip(s) ==
   IF Len(s) > 0 /\ s[1] \in Whitespace THEN lstrip(Tail(s)) ELSE s

RECURSIVE rstrip(_)
rstrip(s) ==
   IF Len(s) > 0 /\ s[Len(s)] \in Whitespace
   THEN rstrip(SubSeq(s, 1, Len(s) - 1))
   ELSE s

strip(s) == rstrip(lstrip(s))

\* text = (req.message or "").strip().lower()
normalize(message) == lower(strip(message))

(***************************************************************************)
(* The keyword table (main.py:116-125), in the dict's insertion order.     *)
(***************************************************************************)
intents ==
   <<
      [intent |-> "book",
       kws |-> << <<"b", "o", "o", "k">>,
                  <<"a", "p", "p", "o", "i", "n", "t", "m", "e", "n", "t">>,
                  <<"s", "c", "h", "e", "d", "u", "l", "e">>,
                  <<"d", "e", "m", "o">> >>],
      [intent |-> "reschedule",
       kws |-> << <<"r", "e", "s", "c", "h", "e", "d", "u", "l", "e">>,
                  <<"m", "i", "s", "s", "e", "d">>,
                  <<"c", "h", "a", "n", "g", "e">> >>],
      [intent |-> "cancel",
       kws |-> << <<"c", "a", "n", "c", "e", "l">> >>],
      [intent |-> "braces",
       kws |-> << <<"b", "r", "a", "c", "e", "s">>,
                  <<"t", "i", "g", "h", "t", "e", "n", "i", "n", "g">>,
                  <<"a", "d", "j", "u", "s", "t", "m", "e", "n", "t">> >>],
      [intent |-> "insurance",
       kws |-> << <<"i", "n", "s", "u", "r", "a", "n", "c", "e">>,
                  <<"c", "o", "v", "e", "r", "e", "d">>,
                  <<"v", "e", "r", "i", "f", "y">> >>],
      [intent |-> "payment",
       kws |-> << <<"p", "a", "y">>,
                  <<"p", "a", "y", "m", "e", "n", "t">>,
                  <<"b", "i", "l", "l", "i", "n", "g">> >>],
      [intent |-> "receptionist",
       kws |-> << <<"r", "e", "c", "e", "p", "t", "i", "o", "n", "i", "s", "t">>,
                  <<"a", "i">>,
                  <<"a", "s", "s", "i", "s", "t", "a", "n", "t">> >>],
      [intent |-> "callback",
       kws |-> << <<"c", "a", "l", "l">>,
                  <<"p", "h", "o", "n", "e">>,
                  <<"c", "o", "n", "t", "a", "c", "t">> >>]
   >>

\* A keyword test that wants k at the start of a word of text.
str_in_at_word_start(k, text) ==
   \E i \in 0..(Len(text) - Len(k)) :
      /\ SubSeq(text, i + 1, i + Len(k)) = k
      /\ i = 0 \/ text[i] \in Whitespace

\* `k in text` on str: k occurs as a contiguous run of text.
str_in(k, text) ==
   \E i \in 0..(Len(text) - Len(k)) : SubSeq(text, i + 1, i + Len(k)) = k

\* any(k in text for k in kws)
any_kw_in(kws, text) == \E j \in 1..Len(kws) : str_in(kws[j], text)

\* The loop without its break: the last rule with a keyword in text wins.
RECURSIVE detect_from_no_break(_, _)
detect_from_no_break(i, text) ==
   IF i > Len(intents) THEN "general"
   ELSE LET later == detect_from_no_break(i + 1, text)
        IN  IF later # "general" THEN later
            ELSE IF any_kw_in(intents[i].kws, text) THEN intents[i].intent
            ELSE "general"

\* The loop of main.py:127-131 from rule i on: the first rule with a keyword
\* in text sets intent_detected and breaks; "general" when the loop runs out.
RECURSIVE detect_from(_, _)
detect_from(i, text) ==
   IF i > Len(intents) THEN "general"
   ELSE IF any_kw_in(intents[i].kws, text) THEN intents[i].intent
   ELSE detect_from(i + 1, text)

detect_intent(text) == detect_from(1, text)


(***************************************************************************)
(* Request and document shapes (main.py:73-78, 88-93; schemas.py:16-34)    *)
(***************************************************************************)
\* class Event: payload defaults to an empty dict, source to "website".
Event(event_type, source, page, session_id, payload) ==
   [event_type |-> event_type, source |-> source, page |-> page,
    session_id |-> session_id, payload |-> payload]

\* class ChatRequest.  user is Optional[Dict]: {} is None, {d} is the dict d.
ChatRequest(message, session_id, page, consent, user) ==
   [message |-> message, session_id |-> session_id, page |-> page,
    consent |-> consent, user |-> user]

\* What the widget sends besides the message: nothing, a session on a page
\* with consent and the visitor's details, a session alone.
Clients ==
   {[session_id |-> None, page |-> None, consent |-> FALSE, user |-> {}],
    [session_id |-> "s1", page |-> "/pricing", consent |-> TRUE,
     user |-> {[name |-> "Ann", email |-> "ann@example.com", phone |-> "555-0100"]}],
    [session_id |-> "s2", page |-> None, consent |-> FALSE, user |-> {}]}

ChatRequests(messages) ==
   {ChatRequest(m, c.session_id, c.page, c.consent, c.user) :
       m \in messages, c \in Clients}

\* What datetime.now(timezone.utc).isoformat() may read.
Times == {"2026-01-01T09:00:00+00:00", "2026-01-01T09:00:01+00:00"}

\* class Lead, as posted to /api/crm/lead.
Leads ==
   {[name |-> "Ann", email |-> None, phone |-> "555-0100",
     preferred_times |-> None, intent |-> "booking", source |-> "website",
     page |-> "/pricing", session_id |-> "s1"],
    [name |-> "Bob", email |-> "bob@example.com", phone |-> None,
     preferred_times |-> "mornings", intent |-> None, source |-> "ads",
     page |-> None, session_id |-> None]}

\* class EventIn, as posted to /api/crm/event.
EventIns ==
   {[event_type |-> "chat_started", source |-> "website", page |-> "/pricing",
     session_id |-> "s1", payload |-> EmptyDict],
    [event_type |-> "booking_requested", source |-> "website", page |-> None,
     session_id |-> None, payload |-> [step |-> "widget"]]}

(***************************************************************************)
(* chat.reply (main.py:103-113): `quick or [...]` takes the default list   *)
(* when quick is None; now is datetime.now(timezone.utc).                  *)
(***************************************************************************)
\* reply with the intent left at its default.
reply_default_intent(msg, intent, quick, now) ==
   [reply |-> msg,
    intent |-> "general",
    quickReplies |->
       << [label |-> "Book Now", action |-> "book",
           url |-> "https://cal.com/velodent-ogbkfv/20min"],
          [label |-> "Check Insurance", action |-> "insurance"],
          [label |-> "Request Callback", action |-> "callback"] >>,
    timestamp |-> now]

\* reply with `quick or []`.
reply_no_default_list(msg, intent, quick, now) ==
   [reply |-> msg,
    intent |-> intent,
    quickReplies |-> IF quick = None THEN <<>> ELSE quick,
    timestamp |-> now]

\* reply that answers a client without consent with the privacy notice.
reply_by_consent(msg, intent, quick, now) ==
   [reply |-> IF req.consent THEN msg ELSE "Please accept the privacy notice first.",
    intent |-> intent,
    quickReplies |->
       << [label |-> "Book Now", action |-> "book",
           url |-> "https://cal.com/velodent-ogbkfv/20min"],
          [label |-> "Check Insurance", action |-> "insurance"],
          [label |-> "Request Callback", action |-> "callback"] >>,
    timestamp |-> now]

reply(msg, intent, quick, now) ==
   [reply |-> msg,
    intent |-> intent,
    quickReplies |->
       IF quick = None
       THEN << [label |-> "Book Now", action |-> "book",
                url |-> "https://cal.com/velodent-ogbkfv/20min"],
               [label |-> "Check Insurance", action |-> "insurance"],
               [label |-> "Request Callback", action |-> "callback"] >>
       ELSE quick,
    timestamp |-> now]

\* The branches with the insurance branch's create_document left out.
chat_event_type_no_insurance(detected) ==
   CASE detected = "book" -> "booking_requested"
     [] detected = "callback" -> "handoff_requested"
     [] OTHER -> None

\* The event each branch of main.py:134-176 writes before it replies
\* (main.py:135, 156, 172); None for the branches that write nothing.
chat_event_type(detected) ==
   CASE detected = "book" -> "booking_requested"
     [] detected = "insurance" -> "insurance_check_requested"
     [] detected = "callback" -> "handoff_requested"
     [] OTHER -> None

\* The event with the message put into its payload.
chat_event_with_message(detected, r) ==
   Event(chat_event_type(detected), "website", r.page, r.session_id,
         [message |-> r.message])

\* Event(event_type=..., source="website", page=req.page, session_id=req.session_id)
chat_event(detected, r) ==
   Event(chat_event_type(detected), "website", r.page, r.session_id, EmptyDict)

\* The return statement of each branch of main.py:134-178 (the typographic
\* apostrophes and dashes of the literals are written in ASCII).
chat_reply(detected, now) ==
   CASE detected = "book" ->
          reply("I can help you book a visit. Use Book Now to choose a time, or share your name, email, phone, and preferred times and I'll arrange it.",
                "booking", None, now)
     [] detected = "reschedule" ->
          reply("No problem. Please share your name and the original appointment date, plus new preferred times. I can also send a rescheduling link.",
                "reschedule", None, now)
     [] detected = "cancel" ->
          reply("I can assist with cancellations. Please confirm your name and appointment date so I can notify the team.",
                "cancel", None, now)
     [] detected = "braces" ->
          reply("For braces, we typically schedule tightening every 4-8 weeks depending on your plan. If you're due, I can help you book a slot.",
                "braces_guidance", None, now)
     [] detected = "insurance" ->
          reply("We verify insurance by collecting your provider and member ID, then confirming coverage. I can start that if you consent to share details.",
                "insurance_info", None, now)
     [] detected = "payment" ->
          reply("You can pay at the clinic via card or contactless. For invoices or estimates, our team can assist-would you like a callback?",
                "payment_info", None, now)
     [] detected = "receptionist" ->
          reply("Velodent's AI receptionist answers FAQs, helps with bookings, and can log your details privately. You control what you share.",
                "about_bot", None, now)
     [] detected = "callback" ->
          reply("Sure-share your phone number and a good time to reach you, and we'll arrange a call.",
                "callback", None, now)
     [] OTHER ->
          reply("How can I help today? I can assist with bookings, insurance, braces schedules, or payments.",
                "general", None, now)

(***************************************************************************)
(* Inputs                                                                  *)
(***************************************************************************)
\* Pieces of text; a message of AllMessages is up to MaxTokens of them in a
\* row ("re" + "schedule", "pay" + "ment", "Re" + "call", "BOOK" + " ").
Tokens ==
   <<
      <<"b", "o", "o", "k">>,
      <<"a", "p", "p", "o", "i", "n", "t", "m", "e", "n", "t">>,
      <<"s", "c", "h", "e", "d", "u", "l", "e">>,
      <<"d", "e", "m", "o">>,
      <<"r", "e">>,
      <<"m", "i", "s", "s", "e", "d">>,
      <<"c", "h", "a", "n", "g", "e">>,
      <<"c", "a", "n", "c", "e", "l">>,
      <<"b", "r", "a", "c", "e", "s">>,
      <<"t", "i", "g", "h", "t", "e", "n", "i", "n", "g">>,
      <<"a", "d", "j", "u", "s", "t", "m", "e", "n", "t">>,
      <<"i", "n", "s", "u", "r", "a", "n", "c", "e">>,
      <<"c", "o", "v", "e", "r", "e", "d">>,
      <<"v", "e", "r", "i", "f", "y">>,
      <<"p", "a", "y">>,
      <<"m", "e", "n", "t">>,
      <<"b", "i", "l", "l", "i", "n", "g">>,
      <<"r", "e", "c", "e", "p", "t", "i", "o", "n", "i", "s", "t">>,
      <<"a", "i">>,
      <<"a", "s", "s", "i", "s", "t", "a", "n", "t">>,
      <<"c", "a", "l", "l">>,
      <<"p", "h", "o", "n", "e">>,
      <<"c", "o", "n", "t", "a", "c", "t">>,
      <<" ">>,
      <<"\t">>,
      <<"H", "e", "l", "l", "o">>,
      <<"B", "O", "O", "K">>,
      <<"R", "e">>
   >>

RECURSIVE Concats(_)
Concats(n) ==
   IF n = 0 THEN {<<>>}
   ELSE LET shorter == Concats(n - 1)
        IN  shorter \cup {Tokens[i] \o m : i \in 1..Len(Tokens), m \in shorter}

AllMessages == Concats(MaxTokens)

\* Whole messages, one or more for every branch of chat:
\* " \t", "hello", "I'd like to BOOK an appointment",
\* "  Please reschedule me ", "I missed it", "what's your cancellation policy",
\* "braces tightening", "is this covered by my insurance", "Pay my bill",
\* "Hello AI", "recall me please".
SampleMessages ==
   <<
      <<" ", "\t">>,
      <<"h", "e", "l", "l", "o">>,
      <<"I", "'", "d", " ", "l", "i", "k", "e", " ", "t", "o", " ", "B",
        "O", "O", "K", " ", "a", "n", " ", "a", "p", "p", "o", "i", "n", "t",
        "m", "e", "n", "t">>,
      <<" ", " ", "P", "l", "e", "a", "s", "e", " ", "r", "e", "s", "c",
        "h", "e", "d", "u", "l", "e", " ", "m", "e", " ">>,
      <<"I", " ", "m", "i", "s", "s", "e", "d", " ", "i", "t">>,
      <<"w", "h", "a", "t", "'", "s", " ", "y", "o", "u", "r", " ", "c",
        "a", "n", "c", "e", "l", "l", "a", "t", "i", "o", "n", " ", "p", "o",
        "l", "i", "c", "y">>,
      <<"b", "r", "a", "c", "e", "s", " ", "t", "i", "g", "h", "t", "e",
        "n", "i", "n", "g">>,
      <<"i", "s", " ", "t", "h", "i", "s", " ", "c", "o", "v", "e", "r",
        "e", "d", " ", "b", "y", " ", "m", "y", " ", "i", "n", "s", "u", "r",
        "a", "n", "c", "e">>,
      <<"P", "a", "y", " ", "m", "y", " ", "b", "i", "l", "l">>,
      <<"H", "e", "l", "l", "o", " ", "A", "I">>,
      <<"r", "e", "c", "a", "l", "l", " ", "m", "e", " ", "p", "l", "e",
        "a", "s", "e">>
   >>

Messages == {SampleMessages[i] : i \in 1..Len(SampleMessages)}

\* " \t", "I'd like to BOOK an appointment", "I missed it", "Pay my bill",
\* "recall me please"
PairMessages == {SampleMessages[i] : i \in {1, 3, 5, 9, 11}}

(***************************************************************************)
(* The handlers' slots and the initial state                               *)
(***************************************************************************)
\* The value of a local or slot that holds nothing.
Nil == <<>>

Returned == ret # Nil /\ ret.ok

Raised == ret # Nil /\ ~ret.ok

\* An exception no handler catches: FastAPI answers 500.
InternalServerError == [status |-> 500]

Ok(body) == [status |-> 200, body |-> body]

Init ==
   /\ db = <<>>
   /\ pc = "idle"
   /\ req = Nil
   /\ intent_detected = None
   /\ lead_id = None
   /\ call = Nil
   /\ ret = Nil
   /\ resp = Nil
   /\ base = 0
   /\ memo = Nil
   /\ answered = 0

(***************************************************************************)
(* create_document (imported at main.py:9): the one operation the handlers *)
(* call on the store.  It stores the document in the named collection and  *)
(* returns the new document's id as a string, or raises (no database, a    *)
(* failed insert).  `by` records which handler made the call.              *)
(***************************************************************************)
Calling == call # Nil /\ ret = Nil

new_id == ToString(Len(db) + 1)

create_document_returns ==
   /\ Calling
   /\ db' = Append(db, [collection |-> call.collection_name, id |-> new_id,
                        data |-> call.data, by |-> call.by])
   /\ ret' = [ok |-> TRUE, id |-> new_id]
   /\ UNCHANGED <<pc, req, intent_detected, lead_id, call, resp, base, memo, answered>>

create_document_raises ==
   /\ Calling
   /\ ret' = [ok |-> FALSE]
   /\ UNCHANGED <<db, pc, req, intent_detected, lead_id, call, resp, base, memo, answered>>

\* create_document(collection_name, data), called by handler `by`.
Call(by, collection_name, data) ==
   [collection_name |-> collection_name, data |-> data, by |-> by]

(***************************************************************************)
(* POST /api/chat: chat (main.py:96-178)                                   *)
(***************************************************************************)
\* A request arrives and the handler starts.
ChatReceive(messages) ==
   /\ pc = "idle"
   /\ Len(db) + 1 <= MaxDocs
   /\ \E r \in ChatRequests(messages) : req' = r
   /\ pc' = "chat_classify"
   /\ base' = Len(db)
   /\ UNCHANGED <<db, intent_detected, lead_id, call, ret, resp, memo, answered>>

\* main.py:101-131: normalise the message and run the keyword loop.
ChatClassify ==
   /\ pc = "chat_classify"
   /\ intent_detected' = detect_intent(normalize(req.message))
   /\ pc' = "chat_respond"
   /\ UNCHANGED <<db, req, lead_id, call, ret, resp, base, memo, answered>>

\* main.py:135, 156, 172: the book, insurance and callback branches call
\* create_document("event", Event(...)) first.
ChatEmit ==
   /\ pc = "chat_respond"
   /\ chat_event_type(intent_detected) # None
   /\ call' = Call("chat", "event", chat_event(intent_detected, req))
   /\ pc' = "chat_emit"
   /\ UNCHANGED <<db, req, intent_detected, lead_id, ret, resp, base, memo, answered>>

\* chat with the reply built before the branch's create_document.
ChatReply_before_write ==
   /\ \/ pc = "chat_respond"
      \/ pc = "chat_emit" /\ Returned
   /\ \E now \in Times : resp' = Ok(chat_reply(intent_detected, now))
   /\ pc' = "done"
   /\ call' = Nil
   /\ ret' = Nil
   /\ answered' = IF intent_detected \in {"book", "insurance", "callback"}
                  THEN answered + 1 ELSE answered
   /\ UNCHANGED <<db, req, intent_detected, lead_id, base, memo>>

\* The return reply(...) of the branch taken: at once in the branches that
\* write nothing, after create_document has returned in the others.
ChatReply ==
   /\ \/ pc = "chat_respond" /\ chat_event_type(intent_detected) = None
      \/ pc = "chat_emit" /\ Returned
   /\ \E now \in Times : resp' = Ok(chat_reply(intent_detected, now))
   /\ pc' = "done"
   /\ call' = Nil
   /\ ret' = Nil
   /\ answered' = IF intent_detected \in {"book", "insurance", "callback"}
                  THEN answered + 1 ELSE answered
   /\ UNCHANGED <<db, req, intent_detected, lead_id, base, memo>>

\* main.py:135, 156, 172 stand in no try block: what create_document raises
\* leaves chat, and no reply is built.
ChatRaise ==
   /\ pc = "chat_emit"
   /\ Raised
   /\ resp' = InternalServerError
   /\ pc' = "done"
   /\ call' = Nil
   /\ ret' = Nil
   /\ UNCHANGED <<db, req, intent_detected, lead_id, base, memo, answered>>

(***************************************************************************)
(* POST /api/crm/lead: create_lead (main.py:58-70)                         *)
(***************************************************************************)
LeadReceive ==
   /\ pc = "idle"
   /\ Len(db) + 2 <= MaxDocs
   /\ \E lead \in Leads : req' = lead
   /\ pc' = "lead_start"
   /\ base' = Len(db)
   /\ UNCHANGED <<db, intent_detected, lead_id, call, ret, resp, memo, answered>>

\* main.py:60: lead_id = create_document("lead", lead), the call.
LeadSave ==
   /\ pc = "lead_start"
   /\ call' = Call("create_lead", "lead", req)
   /\ pc' = "lead_save"
   /\ UNCHANGED <<db, req, intent_detected, lead_id, ret, resp, base, memo, answered>>

\* main.py:60-69: lead_id takes the id returned, the event is built from
\* the lead and create_document("event", ev) is called.
LeadEmit ==
   /\ pc = "lead_save"
   /\ Returned
   /\ lead_id' = ret.id
   /\ call' = Call("create_lead", "event",
                   Event("lead_captured", req.source, req.page, req.session_id,
                         [lead_id |-> ret.id, intent |-> req.intent]))
   /\ ret' = Nil
   /\ pc' = "lead_emit"
   /\ UNCHANGED <<db, req, intent_detected, resp, base, memo, answered>>

\* main.py:70: return {"ok": True, "lead_id": lead_id}
LeadReturn ==
   /\ pc = "lead_emit"
   /\ Returned
   /\ resp' = Ok([ok |-> TRUE, lead_id |-> lead_id])
   /\ pc' = "done"
   /\ call' = Nil
   /\ ret' = Nil
   /\ UNCHANGED <<db, req, intent_detected, lead_id, base, memo, answered>>

\* create_lead with the first create_document in a try block that swallows
\* what it raises.
LeadRaise_swallowed ==
   /\ Raised
   /\ \/ /\ pc = "lead_save"
         /\ lead_id' = None
         /\ call' = Call("create_lead", "event",
                         Event("lead_captured", req.source, req.page, req.session_id,
                               [lead_id |-> None, intent |-> req.intent]))
         /\ ret' = Nil
         /\ pc' = "lead_emit"
         /\ UNCHANGED resp
      \/ /\ pc = "lead_emit"
         /\ resp' = InternalServerError
         /\ pc' = "done"
         /\ call' = Nil
         /\ ret' = Nil
         /\ UNCHANGED lead_id
   /\ UNCHANGED <<db, req, intent_detected, base, memo, answered>>

\* main.py:60, 69 stand in no try block.
LeadRaise ==
   /\ pc \in {"lead_save", "lead_emit"}
   /\ Raised
   /\ resp' = InternalServerError
   /\ pc' = "done"
   /\ call' = Nil
   /\ ret' = Nil
   /\ UNCHANGED <<db, req, intent_detected, lead_id, base, memo, answered>>

(***************************************************************************)
(* POST /api/crm/event: log_event (main.py:81-85)                          *)
(***************************************************************************)
LogReceive ==
   /\ pc = "idle"
   /\ Len(db) + 1 <= MaxDocs
   /\ \E event \in EventIns : req' = event
   /\ pc' = "log_start"
   /\ base' = Len(db)
   /\ UNCHANGED <<db, intent_detected, lead_id, call, ret, resp, memo, answered>>

\* main.py:83-84: ev = Event(**event.model_dump()); create_document("event", ev)
LogSave ==
   /\ pc = "log_start"
   /\ call' = Call("log_event", "event",
                   Event(req.event_type, req.source, req.page, req.session_id,
                         req.payload))
   /\ pc' = "log_save"
   /\ UNCHANGED <<db, req, intent_detected, lead_id, ret, resp, base, memo, answered>>

\* main.py:85: return {"ok": True, "event_id": event_id}
LogReturn ==
   /\ pc = "log_save"
   /\ Returned
   /\ resp' = Ok([ok |-> TRUE, event_id |-> ret.id])
   /\ pc' = "done"
   /\ call' = Nil
   /\ ret' = Nil
   /\ UNCHANGED <<db, req, intent_detected, lead_id, base, memo, answered>>

\* main.py:84 stands in no try block.
LogRaise ==
   /\ pc = "log_save"
   /\ Raised
   /\ resp' = InternalServerError
   /\ pc' = "done"
   /\ call' = Nil
   /\ ret' = Nil
   /\ UNCHANGED <<db, req, intent_detected, lead_id, base, memo, answered>>

(***************************************************************************)
(* The server                                                              *)
(***************************************************************************)
\* Whether the handler that has just answered is chat, and answered a reply.
ChatReplied ==
   /\ pc = "done"
   /\ intent_detected # None
   /\ resp.status = 200

\* The response goes out and the handler's locals are gone.
Respond ==
   /\ pc = "done"
   /\ pc' = "idle"
   /\ req' = Nil
   /\ intent_detected' = None
   /\ lead_id' = None
   /\ resp' = Nil
   /\ base' = Len(db)
   /\ UNCHANGED <<db, call, ret, memo, answered>>

\* The same, and memo keeps the chat request and the reply it got, for
\* comparison with a later one.
Remember ==
   /\ ChatReplied
   /\ pc' = "idle"
   /\ req' = Nil
   /\ intent_detected' = None
   /\ lead_id' = None
   /\ resp' = Nil
   /\ base' = Len(db)
   /\ memo' = [req |-> req, body |-> resp.body]
   /\ UNCHANGED <<db, call, ret, answered>>

Next ==
   \/ ChatReceive(Messages)
   \/ ChatClassify
   \/ ChatEmit
   \/ ChatReply
   \/ ChatRaise
   \/ LeadReceive
   \/ LeadSave
   \/ LeadEmit
   \/ LeadReturn
   \/ LeadRaise
   \/ LogReceive
   \/ LogSave
   \/ LogReturn
   \/ LogRaise
   \/ create_document_returns
   \/ create_document_raises
   \/ Respond

Spec == Init /\ [][Next]_vars

(***************************************************************************)
(* One chat request over every message of AllMessages: the classifier and  *)
(* the branch it selects, on each of them.                                 *)
(***************************************************************************)
InitAllMessages ==
   /\ db = <<>>
   /\ pc = "chat_classify"
   /\ req \in {ChatRequest(m, "s1", "/pricing", FALSE, {}) : m \in AllMessages}
   /\ intent_detected = None
   /\ lead_id = None
   /\ call = Nil
   /\ ret = Nil
   /\ resp = Nil
   /\ base = 0
   /\ memo = Nil
   /\ answered = 0

NextAllMessages ==
   \/ ChatClassify
   \/ ChatEmit
   \/ ChatReply
   \/ ChatRaise
   \/ create_document_returns
   \/ create_document_raises

SpecAllMessages == InitAllMessages /\ [][NextAllMessages]_vars

(***************************************************************************)
(* Chat requests one after another, an earlier one kept in memo.           *)
(***************************************************************************)
NextChats ==
   \/ ChatReceive(PairMessages)
   \/ ChatClassify
   \/ ChatEmit
   \/ ChatReply
   \/ ChatRaise
   \/ create_document_returns
   \/ create_document_raises
   \/ Respond
   \/ Remember

SpecChats == Init /\ [][NextChats]_vars

(***************************************************************************)
(* What the claims speak of                                                *)
(***************************************************************************)
\* The handler in progress is chat, create_lead.
InChat == "message" \in DOMAIN req

InLead == "name" \in DOMAIN req

\* chat has classified the message of req.
Classified == InChat /\ intent_detected # None

\* The intents whose branch writes an event.
WritingIntents == {"book", "insurance", "callback"}

\* The documents handler `by` has stored, as positions of db.
WrittenBy(by) == {i \in 1..Len(db) : db[i].by = by}

\* k occurs in t: some offset at which t reads k, character by character.
Occurs(k, t) ==
   \E off \in 0..(Len(t) - Len(k)) : \A j \in 1..Len(k) : t[off + j] = k[j]

\* m without its leading and trailing whitespace, in lower case.
Trimmed(m) ==
   LET inked == {i \in 1..Len(m) : m[i] \notin Whitespace}
   IN  IF inked = {} THEN <<>>
       ELSE LET first == CHOOSE i \in inked : \A j \in inked : i <= j
                last == CHOOSE i \in inked : \A j \in inked : j <= i
            IN  [i \in 1..(last - first + 1) |-> m[first + i - 1]]

Normalized(m) ==
   LET t == Trimmed(m) IN [i \in 1..Len(t) |-> lower_char(t[i])]

\* The rules in the order the claims declare them.
DeclaredOrder ==
   <<"book", "reschedule", "cancel", "braces", "insurance", "payment",
     "receptionist", "callback">>

\* The keywords of the rule named `name`.
KeywordsOf(name) ==
   LET rule == CHOOSE i \in 1..Len(intents) : intents[i].intent = name
   IN  {intents[rule].kws[j] : j \in 1..Len(intents[rule].kws)}

\* The declared rules with a keyword in t, as positions of DeclaredOrder.
MatchingRules(t) ==
   {i \in 1..Len(DeclaredOrder) : \E k \in KeywordsOf(DeclaredOrder[i]) : Occurs(k, t)}

FirstMatch(t) ==
   LET matching == MatchingRules(t)
   IN  IF matching = {} THEN "general"
       ELSE DeclaredOrder[CHOOSE i \in matching : \A j \in matching : i <= j]

Kw_reschedule == <<"r", "e", "s", "c", "h", "e", "d", "u", "l", "e">>

Kw_missed == <<"m", "i", "s", "s", "e", "d">>

Kw_change == <<"c", "h", "a", "n", "g", "e">>

(***************************************************************************)
(* C1: chat classifies every message as the intent of the first rule, in   *)
(* the order book, reschedule, cancel, braces, insurance, payment,         *)
(* receptionist, callback, that has a keyword occurring in the trimmed,    *)
(* lower-cased message, and as general when no rule has one (the empty     *)
(* and the whitespace-only message included).                              *)
(***************************************************************************)
C1_FirstMatchWins ==
   Classified => intent_detected = FirstMatch(Normalized(req.message))

\* A message in upper case that two rules match, classified as the first.
C1_Witness ==
   /\ Classified
   /\ req.message # Normalized(req.message)
   /\ Cardinality(MatchingRules(Normalized(req.message))) >= 2
   /\ intent_detected = "book"

(***************************************************************************)
(* C9: every message whose normalized text contains "reschedule" is        *)
(* classified book and has a booking_requested event written for it;       *)
(* chat classifies a message as reschedule only when it contains "missed"  *)
(* or "change" and none of the book rule's keywords.                       *)
(***************************************************************************)
C9_RescheduleShadowed ==
   Classified =>
      LET t == Normalized(req.message)
      IN  /\ Occurs(Kw_reschedule, t) =>
                /\ intent_detected = "book"
                /\ pc = "chat_emit" =>
                      /\ call.collection_name = "event"
                      /\ call.data.event_type = "booking_requested"
                /\ (pc = "done" /\ resp.status = 200) =>
                      /\ Len(db) = base + 1
                      /\ db[Len(db)].collection = "event"
                      /\ db[Len(db)].data.event_type = "booking_requested"
          /\ intent_detected = "reschedule" =>
                /\ Occurs(Kw_missed, t) \/ Occurs(Kw_change, t)
                /\ \A k \in KeywordsOf("book") : ~Occurs(k, t)

\* "Reschedule"-bearing message answered, its booking_requested event stored.
C9_Witness ==
   /\ Classified
   /\ Occurs(Kw_reschedule, Normalized(req.message))
   /\ pc = "done"
   /\ resp.status = 200
   /\ db[Len(db)].data.event_type = "booking_requested"

(***************************************************************************)
(* C2: a failed event write never prevents the reply: every chat request   *)
(* classified book, insurance or callback is answered with its reply, and  *)
(* with no error, also when create_document fails.                         *)
(***************************************************************************)
C2_ReplyDespiteFailedWrite ==
   (Classified /\ pc = "done" /\ intent_detected \in WritingIntents) =>
      /\ resp.status = 200
      /\ resp.body.reply = chat_reply(intent_detected, resp.body.timestamp).reply

(***************************************************************************)
(* C3: a chat request classified book, insurance or callback and answered  *)
(* has caused exactly one write, of a booking_requested,                   *)
(* insurance_check_requested or handoff_requested event respectively; a    *)
(* request classified otherwise has caused none; and the events chat has   *)
(* written are as many as the requests of the first kind.                  *)
(***************************************************************************)
C3_EventType ==
   [book |-> "booking_requested", insurance |-> "insurance_check_requested",
    callback |-> "handoff_requested"]

C3_OneWritePerWritingIntent ==
   /\ ChatReplied =>
         IF intent_detected \in WritingIntents
         THEN /\ Len(db) = base + 1
              /\ db[base + 1].by = "chat"
              /\ db[base + 1].collection = "event"
              /\ db[base + 1].data.event_type = C3_EventType[intent_detected]
         ELSE Len(db) = base
   /\ Cardinality(WrittenBy("chat")) =
         answered + (IF pc = "chat_emit" /\ Returned THEN 1 ELSE 0)

\* After two events of chat, a request that is not of the writing kind is
\* answered and has written nothing.
C3_Witness ==
   /\ ChatReplied
   /\ intent_detected = "cancel"
   /\ Len(db) = base
   /\ answered = 2
   /\ {db[i].data.event_type : i \in WrittenBy("chat")} =
         {"booking_requested", "handoff_requested"}

(***************************************************************************)
(* C4 as claimed: the intent field of every reply is the intent the        *)
(* classifier matched, a member of {book, reschedule, cancel, braces,      *)
(* insurance, payment, receptionist, callback, general}.                   *)
(***************************************************************************)
C4_IntentIsClassifierIntent ==
   ChatReplied =>
      /\ resp.body.intent = intent_detected
      /\ resp.body.intent \in
            {"book", "reschedule", "cancel", "braces", "insurance", "payment",
             "receptionist", "callback", "general"}

(***************************************************************************)
(* C4 as amended: the intent field of every reply is the reply label of    *)
(* the intent the classifier matched: booking for book, braces_guidance    *)
(* for braces, insurance_info for insurance, payment_info for payment,     *)
(* about_bot for receptionist, and the intent's own name for reschedule,   *)
(* cancel, callback and general; it is always a member of the closed set   *)
(* of these nine labels.                                                   *)
(***************************************************************************)
C4_Label ==
   [book |-> "booking", reschedule |-> "reschedule", cancel |-> "cancel",
    braces |-> "braces_guidance", insurance |-> "insurance_info",
    payment |-> "payment_info", receptionist |-> "about_bot",
    callback |-> "callback", general |-> "general"]

C4_IntentIsReplyLabel ==
   ChatReplied =>
      /\ intent_detected \in DOMAIN C4_Label
      /\ resp.body.intent = C4_Label[intent_detected]
      /\ resp.body.intent \in
            {"booking", "reschedule", "cancel", "braces_guidance",
             "insurance_info", "payment_info", "about_bot", "callback",
             "general"}

\* A reply whose label is not the classifier's name for the intent.
C4_Witness ==
   /\ ChatReplied
   /\ intent_detected = "receptionist"
   /\ resp.body.intent = "about_bot"

(***************************************************************************)
(* C5: every reply carries the same three quick replies, Book Now/book,    *)
(* Check Insurance/insurance, Request Callback/callback, in this order;    *)
(* each has a non-empty label and action, and exactly one, the one with    *)
(* action book, has a non-empty url.                                       *)
(***************************************************************************)
C5_HasUrl(q) == "url" \in DOMAIN q /\ q.url # ""

C5_DefaultQuickReplies ==
   ChatReplied =>
      LET quick == resp.body.quickReplies
      IN  /\ Len(quick) = 3
          /\ [i \in 1..3 |-> <<quick[i].label, quick[i].action>>] =
                << <<"Book Now", "book">>, <<"Check Insurance", "insurance">>,
                   <<"Request Callback", "callback">> >>
          /\ \A i \in 1..3 : quick[i].label # "" /\ quick[i].action # ""
          /\ {i \in 1..3 : C5_HasUrl(quick[i])} = {1}

\* The reply of a branch other than the default one.
C5_Witness ==
   /\ ChatReplied
   /\ intent_detected = "braces"
   /\ Len(resp.body.quickReplies) = 3

(***************************************************************************)
(* C6: two chat requests with the same message get the same intent, reply  *)
(* text and quick replies, whatever their session_id, page, consent and    *)
(* user are and whatever was handled before them.                          *)
(***************************************************************************)
C6_ReplyDependsOnMessageOnly ==
   (memo # Nil /\ ChatReplied /\ memo.req.message = req.message) =>
      /\ resp.body.intent = memo.body.intent
      /\ resp.body.reply = memo.body.reply
      /\ resp.body.quickReplies = memo.body.quickReplies

\* The same message from two clients that differ in every other field, the
\* second answered at another time and after the store has grown.
C6_Witness ==
   /\ memo # Nil
   /\ ChatReplied
   /\ memo.req.message = req.message
   /\ memo.req.session_id # req.session_id
   /\ memo.req.page # req.page
   /\ memo.req.consent # req.consent
   /\ memo.req.user # req.user
   /\ memo.body.timestamp # resp.body.timestamp
   /\ base >= 2

(***************************************************************************)
(* C7: every event chat writes goes to the "event" collection, carries     *)
(* source "website" and the page and session_id of the request that        *)
(* caused it (None stays None), and holds nothing of the message, the      *)
(* consent or the user.                                                    *)
(***************************************************************************)
C7_EventFields == {"event_type", "source", "page", "session_id", "payload"}

C7_EventCarriesRequestContext ==
   /\ \A i \in WrittenBy("chat") :
         /\ db[i].collection = "event"
         /\ DOMAIN db[i].data = C7_EventFields
         /\ db[i].data.source = "website"
         /\ db[i].data.payload = EmptyDict
   /\ (InChat /\ call # Nil) =>
         /\ call.collection_name = "event"
         /\ DOMAIN call.data = C7_EventFields
         /\ call.data.source = "website"
         /\ call.data.page = req.page
         /\ call.data.session_id = req.session_id
         /\ call.data.payload = EmptyDict
   /\ (InChat /\ Len(db) > base) =>
         /\ Len(db) = base + 1
         /\ db[base + 1].by = "chat"
         /\ db[base + 1].data.page = req.page
         /\ db[base + 1].data.session_id = req.session_id

\* The event of a request with a session and no page, from a client who
\* sent a message, is stored after an event of a client with both.
C7_Witness ==
   /\ ChatReplied
   /\ req.page = None
   /\ req.session_id = "s2"
   /\ Len(db) = base + 1
   /\ db[base + 1].data.page = None
   /\ db[base + 1].data.session_id = "s2"
   /\ \E i \in WrittenBy("chat") :
         db[i].data.page = "/pricing" /\ db[i].data.session_id = "s1"

(***************************************************************************)
(* C8: for a request classified book, insurance or callback the event      *)
(* write is issued and has completed before the reply is built: the step   *)
(* that builds the reply starts with the event stored and the call         *)
(* returned, and no such request is answered with a reply while its event  *)
(* is not in the store.                                                    *)
(***************************************************************************)
C8_BuildsReply ==
   /\ Classified
   /\ intent_detected \in WritingIntents
   /\ resp = Nil
   /\ resp' # Nil
   /\ resp'.status = 200

C8_WriteBeforeReply ==
   /\ [](ChatReplied /\ intent_detected \in WritingIntents =>
            Len(db) = base + 1 /\ db[base + 1].by = "chat")
   /\ [][C8_BuildsReply =>
            /\ pc = "chat_emit"
            /\ Returned
            /\ Len(db) = base + 1
            /\ db[base + 1].by = "chat"
            /\ db[base + 1].id = ret.id
            /\ db[base + 1].data = call.data
            /\ db' = db]_vars

\* A reply to a callback request, its event stored.
C8_Witness ==
   /\ ChatReplied
   /\ intent_detected = "callback"
   /\ Len(db) = base + 1
   /\ db[base + 1].data.event_type = "handoff_requested"

(***************************************************************************)
(* C10: create_lead writes the lead and then one lead_captured event whose *)
(* payload carries the id the first write returned and the lead's intent,  *)
(* and whose source, page and session_id are the lead's; when the lead     *)
(* write fails no event is written; {ok, lead_id} is returned only after   *)
(* both writes have succeeded; the lead_captured events never outnumber    *)
(* the lead documents.                                                     *)
(***************************************************************************)
C10_LeadEvents == {i \in WrittenBy("create_lead") : db[i].collection = "event"}

C10_LeadDocs == {i \in WrittenBy("create_lead") : db[i].collection = "lead"}

=============================================================================
